---------------------------- MODULE Spec2Model ----------------------------
(***************************************************************************)
(* Verification model of three programs of the repository:                 *)
(*   utilities/checkpatch.py   rule registry, commit-message checker,      *)
(*                             spell checker                               *)
(*   tests/scapy_server.py     socket daemon (pidfile, handler threads)    *)
(* Text is modelled as a sequence of one-character strings, so that        *)
(* regular-expression matching, splitting, slicing and lower-casing are    *)
(* computed on the characters.                                             *)
(***************************************************************************)
EXTENDS Integers, Sequences, FiniteSets, TLC

VARIABLES
    \* ---- checkpatch.py: rule registry
    easy_to_misuse_api,   \* the table expanded into generated checks
    checks,               \* the registry: ordered list of Check records
    location,             \* loop variable of the expansion comprehension (a cell)
    ai,                   \* position of the comprehension in the table
    rpc,                  \* "load" | "idle" | "gftc" | "ret"
    filename,             \* argument of get_file_type_checks
    checkList,            \* its result: positions of the selected checks
    gi,                   \* position of its loop in the registry
    \* ---- checkpatch.py: options, commit-message checker, spell checker
    skip_gerrit_change_id_check,
    spellcheck,
    spell_check_dict,     \* <<>> (None) or <<set of accepted words>>
    mpc,                  \* "opts" | "parse"
    text,                 \* the commit-message lines consumed so far
    lineno,
    diags,                \* diagnostics printed, in order
    spelled,              \* arguments of the check_spelling calls made, in order
    sline,                \* check_spelling: line argument
    flagged,              \* check_spelling: words reported
    spc,                  \* "call" | "ret"
    \* ---- scapy_server.py: handler threads
    conn,                 \* per accepted connection: handler position, data, socket
    naccepted,
    \* ---- scapy_server.py: pidfile
    pidfile,              \* <<>> (absent) or <<content>>
    inst                  \* per server instance: position and locals

regVars  == <<easy_to_misuse_api, checks, location, ai, rpc, filename, checkList, gi>>
optVars  == <<skip_gerrit_change_id_check, spellcheck, spell_check_dict>>
msgVars  == <<mpc, text, lineno, diags, spelled>>
spVars   == <<sline, flagged, spc>>
sockVars == <<conn, naccepted>>
pidVars  == <<pidfile, inst>>
vars     == <<regVars, optVars, msgVars, spVars, sockVars, pidVars>>
notReg   == <<optVars, msgVars, spVars, sockVars, pidVars>>
notMsg   == <<regVars, spVars, sockVars, pidVars>>
notSp    == <<regVars, msgVars, sockVars, pidVars>>
notSock  == <<regVars, optVars, msgVars, spVars, pidVars>>
notPid   == <<regVars, optVars, msgVars, spVars, sockVars>>

-----------------------------------------------------------------------------
(* Python values *)

None == <<>>
Some(x) == <<x>>
IsNone(o) == o = <<>>
Val(o) == o[1]

-----------------------------------------------------------------------------
(* Text helpers *)

StartsWith(s, p) == Len(s) >= Len(p) /\ SubSeq(s, 1, Len(p)) = p
EndsWith(s, p) == Len(s) >= Len(p) /\ SubSeq(s, Len(s) - Len(p) + 1, Len(s)) = p

UpperChars == <<"A","B","C","D","E","F","G","H","I","J","K","L","M",
                "N","O","P","Q","R","S","T","U","V","W","X","Y","Z">>
LowerChars == <<"a","b","c","d","e","f","g","h","i","j","k","l","m",
                "n","o","p","q","r","s","t","u","v","w","x","y","z">>
DigitChars == {"0","1","2","3","4","5","6","7","8","9"}

IsUpper(c) == \E i \in 1..26 : UpperChars[i] = c
IsLowerCh(c) == \E i \in 1..26 : LowerChars[i] = c
IsDigit(c) == c \in DigitChars

\* str.lower() on one character
LowerChar(c) == IF IsUpper(c) THEN LowerChars[CHOOSE i \in 1..26 : UpperChars[i] = c] ELSE c
\* str.lower()
Lower(s) == [i \in 1..Len(s) |-> LowerChar(s[i])]

-----------------------------------------------------------------------------
(* checkpatch.py: the rule registry and get_file_type_checks               *)

MaxBase == 2    \* statically registered checks drawn for a run
MaxApi == 2     \* entries of the easy_to_misuse_api table drawn for a run

\* A file-name regex of the registry is an alternation of literal suffixes
\* anchored with $; it is modelled by the set of suffixes it denotes.
Regex_c_h_in == {<<".","c">>, <<".","h">>, <<".","c",".","i","n">>, <<".","h",".","i","n">>}
Regex_at_sh == {<<".","a","t">>, <<".","s","h">>}
Regex_c_in == {<<".","c">>, <<".","c",".","i","n">>}
Regex_c == {<<".","c">>}

\* re.compile(regex).search(filename) is not None
RegexSearch_prefix(regex, name) == \E suf \in regex : StartsWith(name, suf)
RegexSearch(regex, name) == \E suf \in regex : EndsWith(name, suf)

File_ovs_rcu_c == <<"l","i","b","/","o","v","s","-","r","c","u",".","c">>
File_util_c == <<"l","i","b","/","u","t","i","l",".","c">>

FileNames ==
    { <<"f","o","o",".","c">>, <<"f","o","o",".","p","y">>, File_ovs_rcu_c,
      File_util_c, <<"a",".","c",".","i","n">>, <<"x",".","h">>, <<"t",".","a","t">> }

\* A match_name predicate is a closure: "ne_const" compares the file name with
\* a constant, "ne_cell" with the current content of the comprehension's
\* variable `location` (Python closures capture the variable, not its value).
NameNeConst(path) == [kind |-> "ne_const", arg |-> path]
NameNeLocation == [kind |-> "ne_cell", arg |-> <<>>]

CallMatchName(pred, name, cell) ==
    IF pred.kind = "ne_cell" THEN name # cell ELSE name # pred.arg

\* Statically registered checks (regex, match_name, check, print severity/text)
Check_nonascii ==
    [regex |-> Some(Regex_c_h_in), match_name |-> None,
     check |-> "nonascii_character_check",
     print |-> [severity |-> "error", text |-> "Inappropriate non-ascii characters detected."]]
Check_efgrep ==
    [regex |-> Some(Regex_at_sh), match_name |-> None,
     check |-> "has_efgrep",
     print |-> [severity |-> "error", text |-> "grep -E/-F should be used instead of egrep/fgrep"]]
\* registry inputs of the shapes get_file_type_checks distinguishes
Check_regex_only ==
    [regex |-> Some(Regex_c), match_name |-> None,
     check |-> "sample", print |-> [severity |-> "error", text |-> "sample"]]
Check_name_only ==
    [regex |-> None, match_name |-> Some(NameNeConst(File_ovs_rcu_c)),
     check |-> "sample", print |-> [severity |-> "error", text |-> "sample"]]
\* (a check with neither a regex nor a match_name takes the early `continue`,
\* whose condition is not part of the modelled source: no such check is drawn)
SampleChecks == {Check_nonascii, Check_efgrep, Check_regex_only, Check_name_only}

SeqsUpTo(S, n) == UNION { [1..k -> S] : k \in 0..n }

\* easy_to_misuse_api entries: (function_name, location, description)
Api_ovsrcu_barrier ==
    [function_name |-> "ovsrcu_barrier", location |-> File_ovs_rcu_c,
     description |-> "Are you sure you need to use ovsrcu_barrier(), in most cases ovsrcu_synchronize() will be fine?"]
Api_other ==
    [function_name |-> "xmalloc", location |-> File_util_c,
     description |-> "Are you sure you need to use xmalloc()?"]
ApiEntries == {Api_ovsrcu_barrier, Api_other}

\* regex_warn_factory(description): lambda: print_warning(description)
regex_warn_factory(description) == [severity |-> "warning", text |-> description]

\* One element of the comprehension `checks += [{...} for (...) in table]`:
\* function_name and description are passed to factories (evaluated now),
\* match_name is a lambda that mentions the loop variable `location`.
GeneratedCheck(entry) ==
    [regex |-> Some(Regex_c_in), match_name |-> Some(NameNeLocation),
     check |-> entry.function_name,
     print |-> regex_warn_factory(entry.description)]

\* the final test of the loop body of get_file_type_checks
Selected_or(regex_check, match_check) == regex_check \/ match_check
Selected(regex_check, match_check) == regex_check /\ match_check

\* append in registration order
AppendCheck(list, k) == Append(list, k)

RegInit ==
    /\ easy_to_misuse_api \in SeqsUpTo(ApiEntries, MaxApi)
    /\ checks \in SeqsUpTo(SampleChecks, MaxBase)
    /\ location = None
    /\ ai = 1
    /\ rpc = "load"
    /\ filename = <<>>
    /\ checkList = <<>>
    /\ gi = 1

RegIdle ==
    /\ easy_to_misuse_api = <<>>
    /\ checks = <<>>
    /\ location = None
    /\ ai = 1
    /\ rpc = "off"
    /\ filename = <<>>
    /\ checkList = <<>>
    /\ gi = 1

\* one iteration of the comprehension: bind the loop variables, build the dict
ExpandStep ==
    /\ rpc = "load"
    /\ ai <= Len(easy_to_misuse_api)
    /\ location' = Some(easy_to_misuse_api[ai].location)
    /\ checks' = Append(checks, GeneratedCheck(easy_to_misuse_api[ai]))
    /\ ai' = ai + 1
    /\ UNCHANGED <<easy_to_misuse_api, rpc, filename, checkList, gi>>
    /\ UNCHANGED notReg

\* the comprehension is exhausted: module load is complete
ExpandDone ==
    /\ rpc = "load"
    /\ ai > Len(easy_to_misuse_api)
    /\ rpc' = "idle"
    /\ UNCHANGED <<easy_to_misuse_api, checks, location, ai, filename, checkList, gi>>
    /\ UNCHANGED notReg

\* get_file_type_checks(filename): entry
GetFileTypeChecks(name) ==
    /\ rpc \in {"idle", "ret"}
    /\ filename' = name
    /\ checkList' = <<>>
    /\ gi' = 1
    /\ rpc' = "gftc"
    /\ UNCHANGED <<easy_to_misuse_api, checks, location, ai>>
    /\ UNCHANGED notReg

\* the cell `location` as the lambdas see it when called
LocationCell == IF IsNone(location) THEN <<>> ELSE Val(location)

\* get_file_type_checks: one iteration of `for check in checks`
GftcStep ==
    /\ rpc = "gftc"
    /\ gi <= Len(checks)
    /\ LET check == checks[gi]
           regex_check ==
               ~ (~IsNone(check.regex) /\ ~RegexSearch(Val(check.regex), filename))
           match_check ==
               ~ (~IsNone(check.match_name)
                    /\ ~CallMatchName(Val(check.match_name), filename, LocationCell))
       IN  checkList' =
               IF Selected(regex_check, match_check)
               THEN AppendCheck(checkList, gi)
               ELSE checkList
    /\ gi' = gi + 1
    /\ UNCHANGED <<easy_to_misuse_api, checks, location, ai, rpc, filename>>
    /\ UNCHANGED notReg

\* get_file_type_checks: return checkList
GftcReturn ==
    /\ rpc = "gftc"
    /\ gi > Len(checks)
    /\ rpc' = "ret"
    /\ UNCHANGED <<easy_to_misuse_api, checks, location, ai, filename, checkList, gi>>
    /\ UNCHANGED notReg

RegNext ==
    \/ ExpandStep
    \/ ExpandDone
    \/ \E name \in FileNames : GetFileTypeChecks(name)
    \/ GftcStep
    \/ GftcReturn

-----------------------------------------------------------------------------
(* Idle values of the parts a specification does not run *)

OptIdle ==
    /\ skip_gerrit_change_id_check = FALSE
    /\ spellcheck = FALSE
    /\ spell_check_dict = None

MsgIdle ==
    /\ mpc = "off"
    /\ text = <<>>
    /\ lineno = 0
    /\ diags = <<>>
    /\ spelled = <<>>

SpIdle ==
    /\ sline = <<>>
    /\ flagged = <<>>
    /\ spc = "off"

SockIdle ==
    /\ conn = <<>>
    /\ naccepted = 0

PidIdle ==
    /\ pidfile = None
    /\ inst = <<>>

-----------------------------------------------------------------------------
(* Specification of the rule registry *)

InitChecks == RegInit /\ OptIdle /\ MsgIdle /\ SpIdle /\ SockIdle /\ PidIdle

SpecChecks == InitChecks /\ [][RegNext]_vars

\* position k of the registry is in the list get_file_type_checks returned
InList(k) == \E i \in 1..Len(checkList) : checkList[i] = k

\* the regex is found in the file name: some alternative ends the name
Found(regex, name) ==
    \E i \in 0..Len(name) : SubSeq(name, i + 1, Len(name)) \in regex

\* what the predicate of a check returns for the file name
PredTrue(check, name) ==
    IF Val(check.match_name).kind = "ne_const"
    THEN name # Val(check.match_name).arg
    ELSE Some(name) # location

\* C1: a check with a file-name regex and no match_name is selected iff the
\* regex is found in the file name; a check with only a match_name predicate
\* is selected iff the predicate returns true for the file name; the selected
\* checks are returned in registration order.
C1_SelectionByFileName ==
    rpc = "ret" =>
        /\ \A k \in 1..Len(checks) :
              /\ (~IsNone(checks[k].regex) /\ IsNone(checks[k].match_name))
                    => (InList(k) <=> Found(Val(checks[k].regex), filename))
              /\ (IsNone(checks[k].regex) /\ ~IsNone(checks[k].match_name))
                    => (InList(k) <=> PredTrue(checks[k], filename))
        /\ \A i, j \in 1..Len(checkList) : i < j => checkList[i] < checkList[j]

\* C1 witness: a returned list for lib/ovs-rcu.c that holds a regex-only check
\* and leaves out a name-only check registered after it
C1_Witness ==
    /\ rpc = "ret"
    /\ filename = File_ovs_rcu_c
    /\ \E k, m \in 1..Len(checks) :
          /\ k < m
          /\ checks[k] = Check_regex_only /\ InList(k)
          /\ checks[m] = Check_name_only /\ ~InList(m)

HasBoth(k) == ~IsNone(checks[k].regex) /\ ~IsNone(checks[k].match_name)

\* C2 (as stated): a check with both a regex and a match_name predicate is
\* selected whenever the regex matches OR the predicate returns true, and is
\* left out only when neither matches.
C2_UnionSelection ==
    rpc = "ret" =>
        \A k \in 1..Len(checks) :
            HasBoth(k) =>
                (InList(k) <=> (Found(Val(checks[k].regex), filename)
                                  \/ PredTrue(checks[k], filename)))

\* C2 (amended): a check with both a regex and a match_name predicate is
\* selected iff the regex matches AND the predicate returns true; it is left
\* out as soon as either fails.
C2_IntersectionSelection ==
    rpc = "ret" =>
        \A k \in 1..Len(checks) :
            HasBoth(k) =>
                (InList(k) <=> (Found(Val(checks[k].regex), filename)
                                  /\ PredTrue(checks[k], filename)))

\* C2 witness: the generated ovsrcu_barrier check is left out for
\* lib/ovs-rcu.c, whose name the regex matches and the predicate rejects
C2_Witness ==
    /\ rpc = "ret"
    /\ filename = File_ovs_rcu_c
    /\ easy_to_misuse_api = <<Api_ovsrcu_barrier>>
    /\ \E k \in 1..Len(checks) :
          /\ HasBoth(k)
          /\ Found(Val(checks[k].regex), filename)
          /\ ~PredTrue(checks[k], filename)
          /\ ~InList(k)

\* position in the registry of the check generated for table entry k
GeneratedAt(k) == Len(checks) - Len(easy_to_misuse_api) + k

\* C8: for a table of any length, the check generated for an entry is selected
\* for every .c / .c.in file except the file at that entry's own location,
\* looks for that entry's function and reports that entry's description as a
\* warning.
C8_TableExpansion ==
    rpc = "ret" =>
        \A k \in 1..Len(easy_to_misuse_api) :
            LET entry == easy_to_misuse_api[k]
                check == checks[GeneratedAt(k)]
            IN  /\ InList(GeneratedAt(k))
                      <=> (Found(Regex_c_in, filename) /\ filename # entry.location)
                /\ check.check = entry.function_name
                /\ check.print = [severity |-> "warning", text |-> entry.description]

-----------------------------------------------------------------------------
(* checkpatch.py: spell checker                                            *)

IsAlnum(c) == IsUpper(c) \/ IsLowerCh(c) \/ IsDigit(c) \/ c = "_"

\* str.replace(a, b) for single characters
Replace(s, a, b) == [i \in 1..Len(s) |-> IF s[i] = a THEN b ELSE s[i]]

\* str.split(sep) for a single-character separator: empty fields are kept
RECURSIVE Split(_, _)
Split(s, sep) ==
    IF \A i \in 1..Len(s) : s[i] # sep
    THEN <<s>>
    ELSE LET k == CHOOSE i \in 1..Len(s) : s[i] = sep /\ \A j \in 1..(i - 1) : s[j] # sep
         IN  <<SubSeq(s, 1, k - 1)>> \o Split(SubSeq(s, k + 1, Len(s)), sep)

\* strword: the word without its surrounding punctuation
StripPunct(word) ==
    IF \A i \in 1..Len(word) : ~IsAlnum(word[i])
    THEN <<>>
    ELSE LET first == CHOOSE i \in 1..Len(word) :
                          IsAlnum(word[i]) /\ \A j \in 1..(i - 1) : ~IsAlnum(word[j])
             last == CHOOSE i \in 1..Len(word) :
                          IsAlnum(word[i]) /\ \A j \in (i + 1)..Len(word) : ~IsAlnum(word[j])
         IN  SubSeq(word, first, last)

\* spell_check_dict.check(word): the dictionary is a set of accepted words
DictCheck(dict, word) == word \in dict

\* the condition of the `if` of the word loop
WordRejected_exact(dict, strword, word) ==
    /\ Len(strword) > 0
    /\ ~DictCheck(dict, strword)
    /\ ~DictCheck(dict, Lower(strword))
WordRejected(dict, strword, word) ==
    /\ Len(strword) > 0
    /\ ~DictCheck(dict, Lower(strword))
    /\ ~DictCheck(dict, Lower(word))

\* any(check_char.isdigit() for check_char in strword)
HasDigit(strword) == \E i \in 1..Len(strword) : IsDigit(strword[i])

\* the word loop: the words reported, with their position in the line
RECURSIVE SpellWords(_, _, _)
SpellWords(dict, words, i) ==
    IF i > Len(words)
    THEN <<>>
    ELSE LET word == words[i]
             strword == StripPunct(word)
         IN  (IF WordRejected(dict, strword, word) /\ ~HasDigit(strword)
              THEN <<[pos |-> i, word |-> strword]>>
              ELSE <<>>)
             \o SpellWords(dict, words, i + 1)

\* line.replace(':', ' ').split(' ')
LineWords(line) == Split(Replace(line, ":", " "), " ")

\* check_spelling(line, False)
CheckSpelling(dict, enabled, line) ==
    IF IsNone(dict) \/ ~enabled
    THEN <<>>
    ELSE SpellWords(Val(dict), LineWords(line), 1)

W_the == <<"t","h","e">>
W_quick == <<"q","u","i","c","k">>
W_fox == <<"f","o","x">>
W_Linux == <<"L","i","n","u","x">>
W_eg == <<"e",".","g",".">>
Dict_minimal == {W_the, W_quick, W_fox}
Dict_proper == {W_the, W_quick, W_fox, W_Linux}
Dict_abbrev == {W_the, W_quick, W_fox, W_eg}
\* a dictionary that accepts the Change-Id tag itself
W_change_id == <<"c","h","a","n","g","e","-","i","d">>
Dict_trailers == {W_the, W_quick, W_fox, W_change_id}
Dictionaries == {Dict_minimal, Dict_proper, Dict_abbrev}

SpellLines ==
    { <<"t","h","e"," ","q","u","i","k","c"," ","f","o","x">>,
      <<"t","h","e"," ","q","u","i","c","k"," ","f","o","x">>,
      <<"v","2">>,
      <<"L","i","n","u","x"," ","f","o","x">>,
      <<"f","o","x","."," ","(","t","h","e",")">>,
      <<"e",".","g","."," ","t","h","e">>,
      <<"q","u","i","k","c"," ","v","2"," ","q","i","c","k">>,
      <<"t","h","e",":"," ","F","o","x">>,
      <<"-","-">>,
      <<"a","1","b"," ","q","u","i","c","k">>,
      <<>>,
      <<"t","h","e"," "," ","f","o","x",":","q","u","i","k","c">> }

SpInit ==
    /\ spellcheck \in BOOLEAN
    /\ spell_check_dict \in {None} \cup {Some(d) : d \in Dictionaries}
    /\ skip_gerrit_change_id_check = FALSE
    /\ sline \in SpellLines
    /\ flagged = <<>>
    /\ spc = "call"

\* check_spelling(sline, False) runs to its return
CheckSpellingCall ==
    /\ spc = "call"
    /\ flagged' = CheckSpelling(spell_check_dict, spellcheck, sline)
    /\ spc' = "ret"
    /\ UNCHANGED <<sline, optVars>>
    /\ UNCHANGED notSp

\* the caller passes the next line
CheckSpellingNext(line) ==
    /\ spc = "ret"
    /\ sline' = line
    /\ flagged' = <<>>
    /\ spc' = "call"
    /\ UNCHANGED optVars
    /\ UNCHANGED notSp

SpNext ==
    \/ CheckSpellingCall
    \/ \E line \in SpellLines : CheckSpellingNext(line)

InitSpell == SpInit /\ RegIdle /\ MsgIdle /\ SockIdle /\ PidIdle

SpecSpell == InitSpell /\ [][SpNext]_vars

-----------------------------------------------------------------------------
(* checkpatch.py: options and the commit-message checker                   *)

MaxLines == 2   \* commit-message lines of a run

IsSpace(c) == c \in {" ", "\t", "\r", "\f"}
IsLowerHex(c) == IsDigit(c) \/ c \in {"a", "b", "c", "d", "e", "f"}

\* number of leading whitespace characters (the \s* of a regex)
LeadingSpace(line) ==
    IF \A i \in 1..Len(line) : IsSpace(line[i])
    THEN Len(line)
    ELSE (CHOOSE i \in 1..Len(line) :
              ~IsSpace(line[i]) /\ \A j \in 1..(i - 1) : IsSpace(line[j])) - 1

\* re.match of \s*<literal> with re.I
MatchSpaceThenI(line, literal) ==
    StartsWith(Lower(SubSeq(line, LeadingSpace(line) + 1, Len(line))), literal)

\* is_fixes = re.compile(r'(\s*(Fixes:)(.*))$', re.I | re.M | re.S)
is_fixes(line) == MatchSpaceThenI(line, <<"f","i","x","e","s",":">>)

\* is_fixes_exact = re.compile(r'^Fixes: [0-9a-f]{12} \(".*"\)$')
is_fixes_exact_open(line) ==
    /\ StartsWith(line, <<"F","i","x","e","s",":"," ">>)
    /\ Len(line) >= 24
    /\ \A i \in 8..19 : IsLowerHex(line[i])
    /\ SubSeq(line, 20, 22) = <<" ","(","\"">>
    /\ \E i \in 23..(Len(line) - 1) : SubSeq(line, i, i + 1) = <<"\"",")">>
is_fixes_exact(line) ==
    /\ StartsWith(line, <<"F","i","x","e","s",":"," ">>)
    /\ Len(line) >= 24
    /\ \A i \in 8..19 : IsLowerHex(line[i])
    /\ SubSeq(line, 20, 22) = <<" ","(","\"">>
    /\ SubSeq(line, Len(line) - 1, Len(line)) = <<"\"",")">>

\* the Gerrit Change-Id trailer
is_gerrit_change_id(line) == MatchSpaceThenI(line, <<"c","h","a","n","g","e","-","i","d",":"," ">>)

\* the Signed-off-by trailer, an earlier branch of the chain
is_signature(line) == StartsWith(Lower(line), <<"s","i","g","n","e","d","-","o","f","f","-","b","y",":"," ">>)

tags_typos ==
    << [typo |-> <<"A","c","k","e","d"," ","b","y",":">>,
        correct |-> <<"A","c","k","e","d","-","b","y",":">>],
       [typo |-> <<"R","e","p","o","r","t","e","d"," ","a","t",":">>,
        correct |-> <<"R","e","p","o","r","t","e","d","-","a","t",":">>],
       [typo |-> <<"R","e","p","o","r","t","e","d"," ","b","y",":">>,
        correct |-> <<"R","e","p","o","r","t","e","d","-","b","y",":">>],
       [typo |-> <<"R","e","q","u","e","s","t","e","d"," ","b","y",":">>,
        correct |-> <<"R","e","q","u","e","s","t","e","d","-","b","y",":">>],
       [typo |-> <<"R","e","v","i","e","w","e","d"," ","b","y",":">>,
        correct |-> <<"R","e","v","i","e","w","e","d","-","b","y",":">>],
       [typo |-> <<"S","u","b","m","i","t","t","e","d"," ","a","t",":">>,
        correct |-> <<"S","u","b","m","i","t","t","e","d","-","a","t",":">>],
       [typo |-> <<"S","u","g","g","e","s","t","e","d"," ","b","y",":">>,
        correct |-> <<"S","u","g","g","e","s","t","e","d","-","b","y",":">>] >>

\* re.match(typo, line, re.I) for a pattern ^<literal>
MatchTypo(typo, line) == StartsWith(Lower(line), Lower(typo))

\* "%s tag is malformed." % (correct[:-1])
MalformedTagText_whole(correct) == correct \o <<" ","t","a","g"," ","i","s"," ","m","a","l","f","o","r","m","e","d",".">>
MalformedTagText(correct) ==
    SubSeq(correct, 1, Len(correct) - 1) \o <<" ","t","a","g"," ","i","s"," ","m","a","l","f","o","r","m","e","d",".">>

FixesErrorText ==
    <<"\"","F","i","x","e","s","\""," ","t","a","g"," ","i","s"," ","m","a","l","f","o","r","m","e","d",".","\n","U","s","e"," ","t","h","e"," ","f","o","l","l","o","w","i","n","g"," ","f","o","r","m","a","t",":","\n"," "," ","g","i","t"," ","l","o">>
    \o <<"g"," ","-","1"," ","-","-","p","r","e","t","t","y","=","f","o","r","m","a","t",":","\"","F","i","x","e","s",":"," ","%","h"," ","(","\\","\"","%","s","\\","\"",")","\""," ","-","-","a","b","b","r","e","v","=","1","2"," ","C","O","M","M","I","T","_","R","E","F","\n">>
GerritErrorText == <<"R","e","m","o","v","e"," ","G","e","r","r","i","t"," ","C","h","a","n","g","e","-","I","d","'","s"," ","b","e","f","o","r","e"," ","s","u","b","m","i","t","t","i","n","g"," ","u","p","s","t","r","e","a","m",".">>
FormFeed == <<"\f">>

Diag(severity, kind, msg, n, line) ==
    [severity |-> severity, kind |-> kind, text |-> msg, lineno |-> n, line |-> line]

\* the branch of the if/elif chain a commit-message line takes
Branch_noskip(line, skip, spell) ==
    IF is_signature(line) THEN "signature"
    ELSE IF is_gerrit_change_id(line) THEN "gerrit"
    ELSE IF is_fixes(line) /\ ~is_fixes_exact(line) THEN "fixes"
    ELSE IF spell THEN "spell"
    ELSE "none"
Branch_trailers(line, skip, spell) ==
    IF is_signature(line) THEN "signature"
    ELSE IF is_gerrit_change_id(line) /\ ~skip THEN "gerrit"
    ELSE IF is_gerrit_change_id(line) THEN "none"
    ELSE IF is_fixes(line) /\ ~is_fixes_exact(line) THEN "fixes"
    ELSE IF is_fixes(line) THEN "none"
    ELSE IF spell THEN "spell"
    ELSE "none"
Branch(line, skip, spell) ==
    IF is_signature(line) THEN "signature"
    ELSE IF is_gerrit_change_id(line) /\ ~skip THEN "gerrit"
    ELSE IF is_fixes(line) /\ ~is_fixes_exact(line) THEN "fixes"
    ELSE IF spell THEN "spell"
    ELSE "none"

\* what the chain prints for the line
ChainDiags(line, n) ==
    LET b == Branch(line, skip_gerrit_change_id_check, spellcheck)
    IN  IF b = "gerrit" THEN <<Diag("error", "gerrit", GerritErrorText, n, line)>>
        ELSE IF b = "fixes" THEN <<Diag("error", "fixes", FixesErrorText, n, line)>>
        ELSE IF b = "spell"
             THEN LET found == CheckSpelling(spell_check_dict, spellcheck, line)
                  IN  [i \in 1..Len(found) |->
                          Diag("warning", "spelling", found[i].word, n, line)]
        ELSE <<>>

\* for typo, correct in tags_typos.items(): ...
RECURSIVE TypoDiags(_, _, _)
TypoDiags(line, n, i) ==
    IF i > Len(tags_typos)
    THEN <<>>
    ELSE (IF MatchTypo(tags_typos[i].typo, line)
          THEN <<Diag("error", "tag", MalformedTagText(tags_typos[i].correct), n, line)>>
          ELSE <<>>)
         \o TypoDiags(line, n, i + 1)

MessageLines ==
    { FormFeed,
      <<"F","i","x","e","s",":"," ","a","b","c","1","2","3","d","e","f","4","5","6"," ","(","\"","s","\"",")">>,
      <<"F","i","x","e","s",":"," ","a","b","c","1","2","3"," ","(","\"","x","\"",")">>,
      <<"F","i","x","e","s",":"," ","A","B","C","1","2","3","D","E","F","4","5","6"," ","(","\"","x","\"",")">>,
      <<"f","i","x","e","s",":"," ","a","b","c","1","2","3","d","e","f","4","5","6"," ","(","\"","x","\"",")">>,
      <<" ","F","i","x","e","s",":"," ","a","b","c","1","2","3","d","e","f","4","5","6"," ","(","\"","x","\"",")">>,
      <<"F","i","x","e","s",":"," ","a","b","c","1","2","3","d","e","f","4","5","6"," ","(","\"","x","\"",")"," ","y">>,
      <<"A","c","k","e","d"," ","b","y",":"," ","J","a","n","e">>,
      <<"a","c","k","e","d"," ","B","Y",":"," ","J","o">>,
      <<"A","c","k","e","d","-","b","y",":"," ","J","a","n","e">>,
      <<"R","e","p","o","r","t","e","d"," ","a","t",":"," ","u">>,
      <<"R","e","p","o","r","t","e","d","-","a","t",":"," ","u">>,
      <<"R","e","p","o","r","t","e","d"," ","b","y",":"," ","u">>,
      <<"R","e","q","u","e","s","t","e","d"," ","b","y",":"," ","u">>,
      <<"R","e","v","i","e","w","e","d"," ","b","y",":"," ","u">>,
      <<"S","u","b","m","i","t","t","e","d"," ","a","t",":"," ","u">>,
      <<"S","u","g","g","e","s","t","e","d"," ","b","y",":"," ","u">>,
      <<"C","h","a","n","g","e","-","I","d",":"," ","I","a","b","c","d","e","f">>,
      <<"c","h","a","n","g","e","-","i","d",":"," ","I","1">>,
      <<"S","i","g","n","e","d","-","o","f","f","-","b","y",":"," ","q","u","i","k","c">>,
      <<"t","h","e"," ","q","u","i","k","c"," ","f","o","x">> }

MsgInit ==
    /\ skip_gerrit_change_id_check = FALSE
    /\ spellcheck = FALSE
    /\ spell_check_dict = None
    /\ mpc = "opts"
    /\ text = <<>>
    /\ lineno = 0
    /\ diags = <<>>
    /\ spelled = <<>>

\* main: --skip-gerrit-change-id
OptSkipGerritChangeId ==
    /\ mpc = "opts"
    /\ skip_gerrit_change_id_check' = TRUE
    /\ UNCHANGED <<spellcheck, spell_check_dict, msgVars>>
    /\ UNCHANGED notMsg

\* main: -S | --spellcheck, the dictionary is loaded (or is not available)
OptSpellcheck(dict) ==
    /\ mpc = "opts"
    /\ spell_check_dict' = IF IsNone(dict) THEN spell_check_dict ELSE dict
    /\ spellcheck' = IF IsNone(dict) THEN spellcheck ELSE TRUE
    /\ UNCHANGED <<skip_gerrit_change_id_check, msgVars>>
    /\ UNCHANGED notMsg

\* ovs_checkpatch_parse is entered
ParseStart ==
    /\ mpc = "opts"
    /\ mpc' = "parse"
    /\ UNCHANGED <<optVars, text, lineno, diags, spelled>>
    /\ UNCHANGED notMsg

\* one iteration of `for line in text.split("\n")` in the commit message
ParseLine(line) ==
    /\ mpc = "parse"
    /\ lineno < MaxLines
    /\ text' = Append(text, line)
    /\ lineno' = lineno + 1
    /\ IF line = FormFeed
       THEN UNCHANGED <<diags, spelled>>
       ELSE /\ diags' = diags \o ChainDiags(line, lineno + 1)
                              \o TypoDiags(line, lineno + 1, 1)
            /\ spelled' =
                   IF Branch(line, skip_gerrit_change_id_check, spellcheck) = "spell"
                   THEN Append(spelled, [lineno |-> lineno + 1, line |-> line,
                                         comment |-> FALSE])
                   ELSE spelled
    /\ UNCHANGED <<optVars, mpc>>
    /\ UNCHANGED notMsg

MsgNext ==
    \/ OptSkipGerritChangeId
    \/ \E dict \in {None, Some(Dict_trailers)} : OptSpellcheck(dict)
    \/ ParseStart
    \/ \E line \in MessageLines : ParseLine(line)

InitMsg == MsgInit /\ RegIdle /\ SpIdle /\ SockIdle /\ PidIdle

SpecMsg == InitMsg /\ [][MsgNext]_vars

-----------------------------------------------------------------------------
(* Claims about the spell checker *)

WordFlagged(i) == \E j \in 1..Len(flagged) : flagged[j].pos = i

SpellRan == spc = "ret" /\ spellcheck /\ ~IsNone(spell_check_dict)

\* C6 (as stated): with spell checking enabled and a dictionary loaded, a
\* token is flagged iff it is non-empty after stripping surrounding
\* punctuation, contains no digit, and the dictionary rejects both the
\* stripped form and its lower-cased form.
C6_StrippedAndLowerCased ==
    SpellRan =>
        \A i \in 1..Len(LineWords(sline)) :
            LET stripped == StripPunct(LineWords(sline)[i])
            IN  WordFlagged(i) <=>
                    /\ stripped # <<>>
                    /\ \A k \in 1..Len(stripped) : stripped[k] \notin DigitChars
                    /\ stripped \notin Val(spell_check_dict)
                    /\ Lower(stripped) \notin Val(spell_check_dict)

\* C6 (amended): with spell checking enabled and a dictionary loaded, a token
\* is flagged iff it is non-empty after stripping surrounding punctuation,
\* contains no digit, and the dictionary rejects both the lower-cased stripped
\* form and the lower-cased unstripped token; with dictionary {the, quick, fox}
\* the line 'the quikc fox' flags exactly 'quikc'.
C6_LowerCasedForms ==
    SpellRan =>
        /\ \A i \in 1..Len(LineWords(sline)) :
              LET token == LineWords(sline)[i]
                  stripped == StripPunct(token)
              IN  WordFlagged(i) <=>
                      /\ stripped # <<>>
                      /\ \A k \in 1..Len(stripped) : stripped[k] \notin DigitChars
                      /\ Lower(stripped) \notin Val(spell_check_dict)
                      /\ Lower(token) \notin Val(spell_check_dict)
        /\ (spell_check_dict = Some(Dict_minimal) /\ sline = <<"t","h","e"," ","q","u","i","k","c"," ","f","o","x">>)
              => flagged = <<[pos |-> 2, word |-> <<"q","u","i","k","c">>]>>

\* C6 witness: a line whose first and third tokens are flagged and whose
\* second token, which holds a digit, is not
C6_Witness ==
    /\ SpellRan
    /\ sline = <<"q","u","i","k","c"," ","v","2"," ","q","i","c","k">>
    /\ WordFlagged(1) /\ ~WordFlagged(2) /\ WordFlagged(3)

-----------------------------------------------------------------------------
(* Claims about the commit-message checker *)

DiagsAt(n, kind) == { j \in 1..Len(diags) : diags[j].lineno = n /\ diags[j].kind = kind }
AllDiagsAt(n) == { j \in 1..Len(diags) : diags[j].lineno = n }
PassedToSpelling(n) == \E j \in 1..Len(spelled) : spelled[j].lineno = n

HexLower == {"0","1","2","3","4","5","6","7","8","9","a","b","c","d","e","f"}
HexAny == HexLower \cup {"A","B","C","D","E","F"}

\* the line begins, after optional white space and in any case, with Fixes:
FixesLine(l) ==
    \E k \in 0..Len(l) :
        /\ \A i \in 1..k : IsSpace(l[i])
        /\ Len(l) >= k + 6
        /\ Lower(SubSeq(l, k + 1, k + 6)) = <<"f","i","x","e","s",":">>

\* the line is Fixes: <12 digits of hex> ("<subject>")
FixesForm(l, hex) ==
    \E n \in 0..Len(l) :
        /\ Len(l) = 24 + n
        /\ l = <<"F","i","x","e","s",":"," ">> \o SubSeq(l, 8, 19) \o <<" ","(","\"">> \o SubSeq(l, 23, 22 + n) \o <<"\"",")">>
        /\ \A i \in 8..19 : l[i] \in hex

ChangeIdLine(l) ==
    \E k \in 0..Len(l) :
        /\ \A i \in 1..k : IsSpace(l[i])
        /\ Len(l) >= k + 11
        /\ Lower(SubSeq(l, k + 1, k + 11)) = <<"c","h","a","n","g","e","-","i","d",":"," ">>

\* the line comes to the Fixes branch of the chain
ReachesFixesBranch(l) ==
    /\ l # FormFeed
    /\ ~is_signature(l)
    /\ ~(ChangeIdLine(l) /\ ~skip_gerrit_change_id_check)

\* C3 (as stated): a line that reaches the Fixes branch gets the malformed
\* "Fixes" error iff it is a Fixes: line that is not exactly
\* Fixes: <12 hex digits> ("<subject>").
C3_TwelveHexDigits ==
    mpc = "parse" =>
        \A n \in 1..Len(text) :
            ReachesFixesBranch(text[n]) =>
                (DiagsAt(n, "fixes") # {}
                    <=> (FixesLine(text[n]) /\ ~FixesForm(text[n], HexAny)))

\* C3 (amended): a line that reaches the Fixes branch gets the malformed
\* "Fixes" error, with the git log remediation, iff it is a Fixes: line that
\* is not exactly Fixes: <12 lower-case hex digits 0-9a-f> ("<subject>").
C3_TwelveLowerHexDigits ==
    mpc = "parse" =>
        \A n \in 1..Len(text) :
            ReachesFixesBranch(text[n]) =>
                /\ DiagsAt(n, "fixes") # {}
                      <=> (FixesLine(text[n]) /\ ~FixesForm(text[n], HexLower))
                /\ \A j \in DiagsAt(n, "fixes") :
                      diags[j].severity = "error" /\ diags[j].text = FixesErrorText

\* C3 witness: a 12-digit Fixes line passed and a 6-digit one was flagged
C3_Witness ==
    /\ mpc = "parse"
    /\ text = << <<"F","i","x","e","s",":"," ","a","b","c","1","2","3","d","e","f","4","5","6"," ","(","\"","s","\"",")">>,
                 <<"F","i","x","e","s",":"," ","a","b","c","1","2","3"," ","(","\"","x","\"",")">> >>
    /\ DiagsAt(1, "fixes") = {}
    /\ DiagsAt(2, "fixes") # {}

TagIsMalformed == <<" ","t","a","g"," ","i","s"," ","m","a","l","f","o","r","m","e","d",".">>

BeginsWithI(l, p) == Len(l) >= Len(p) /\ Lower(SubSeq(l, 1, Len(p))) = Lower(p)

\* C4 (as stated): a line beginning, in any case, with the space-separated
\* spelling of a trailer gets exactly one malformed-tag error whose message is
\* the canonical tag followed by ' tag is malformed.'; a line beginning with
\* the canonical spelling gets none.
C4_MessageWithTag ==
    mpc = "parse" =>
        \A n \in 1..Len(text) : \A t \in 1..Len(tags_typos) :
            /\ BeginsWithI(text[n], tags_typos[t].typo) =>
                  /\ Cardinality(DiagsAt(n, "tag")) = 1
                  /\ \A j \in DiagsAt(n, "tag") :
                        diags[j].text = tags_typos[t].correct \o <<" ","t","a","g"," ","i","s"," ","m","a","l","f","o","r","m","e","d",".">>
            /\ BeginsWithI(text[n], tags_typos[t].correct) => DiagsAt(n, "tag") = {}

\* C4 (amended): a line beginning, in any case, with the space-separated
\* spelling of a trailer gets exactly one malformed-tag error whose message is
\* the canonical tag without its final colon followed by ' tag is malformed.'
\* (for Acked: "Acked-by tag is malformed."); a line beginning with the
\* canonical spelling gets none.
C4_MessageWithoutColon ==
    mpc = "parse" =>
        \A n \in 1..Len(text) : \A t \in 1..Len(tags_typos) :
            /\ BeginsWithI(text[n], tags_typos[t].typo) =>
                  /\ Cardinality(DiagsAt(n, "tag")) = 1
                  /\ \A j \in DiagsAt(n, "tag") :
                        /\ diags[j].severity = "error"
                        /\ EndsWith(diags[j].text, TagIsMalformed)
                        /\ SubSeq(diags[j].text, 1, Len(diags[j].text) - Len(TagIsMalformed))
                              \o <<":">> = tags_typos[t].correct
            /\ BeginsWithI(text[n], tags_typos[t].correct) => DiagsAt(n, "tag") = {}

\* C4 witness: 'acked BY: Jo' was flagged once, 'Acked-by: Jane' was not
C4_Witness ==
    /\ mpc = "parse"
    /\ text = << <<"a","c","k","e","d"," ","B","Y",":"," ","J","o">>, <<"A","c","k","e","d","-","b","y",":"," ","J","a","n","e">> >>
    /\ Cardinality(DiagsAt(1, "tag")) = 1
    /\ \A j \in DiagsAt(1, "tag") : diags[j].text = <<"A","c","k","e","d","-","b","y"," ","t","a","g"," ","i","s"," ","m","a","l","f","o","r","m","e","d",".">>
    /\ DiagsAt(2, "tag") = {}

\* C5 (as stated): a Change-Id line gets an error when
\* skip_gerrit_change_id_check is false and no diagnostic of any kind when it
\* is set, whatever the other options are.
C5_SilentWhenSkipped ==
    mpc = "parse" =>
        \A n \in 1..Len(text) :
            ChangeIdLine(text[n]) =>
                /\ ~skip_gerrit_change_id_check =>
                      \E j \in AllDiagsAt(n) : diags[j].severity = "error"
                /\ skip_gerrit_change_id_check => AllDiagsAt(n) = {}

\* C5 (amended): a Change-Id line gets an error when
\* skip_gerrit_change_id_check is false; when it is set the line gets no error
\* and, with spell checking disabled, no diagnostic of any kind; with spell
\* checking enabled the line is passed to check_spelling, whose spelling
\* warnings are the only diagnostics it can get.
C5_NoErrorWhenSkipped ==
    mpc = "parse" =>
        \A n \in 1..Len(text) :
            ChangeIdLine(text[n]) =>
                /\ ~skip_gerrit_change_id_check =>
                      /\ \E j \in AllDiagsAt(n) :
                            diags[j].severity = "error" /\ diags[j].kind = "gerrit"
                      /\ ~PassedToSpelling(n)
                /\ skip_gerrit_change_id_check =>
                      /\ \A j \in AllDiagsAt(n) :
                            diags[j].severity = "warning" /\ diags[j].kind = "spelling"
                      /\ ~spellcheck => AllDiagsAt(n) = {}
                      /\ spellcheck => PassedToSpelling(n)

\* C5 witness: with --skip-gerrit-change-id and spell checking, a Change-Id
\* line got a spelling warning
C5_Witness ==
    /\ mpc = "parse"
    /\ skip_gerrit_change_id_check
    /\ spellcheck
    /\ \E n \in 1..Len(text) :
          /\ ChangeIdLine(text[n])
          /\ \E j \in AllDiagsAt(n) : diags[j].kind = "spelling"

\* a trailer line: Signed-off-by, Change-Id, or Fixes: (well-formed or not)
TrailerLine(l) == is_signature(l) \/ ChangeIdLine(l) \/ FixesLine(l)

SpellCallOk(n) ==
    \A j \in 1..Len(spelled) :
        spelled[j].lineno = n => spelled[j].line = text[n] /\ spelled[j].comment = FALSE

\* C7 (as stated): with spell checking enabled every line that is not a
\* trailer line is passed to check_spelling(line, False) and trailer lines
\* (Change-Id, Fixes: well-formed or malformed) are not; with spell checking
\* disabled no line is passed.
C7_TrailersNotSpelled ==
    mpc = "parse" =>
        \A n \in 1..Len(text) :
            text[n] # FormFeed =>
                (PassedToSpelling(n) <=> (spellcheck /\ ~TrailerLine(text[n])))

\* C7 (amended): with spell checking enabled a commit-message line is passed
\* to check_spelling(line, False) iff no earlier branch of the chain took it:
\* it is not a Signed-off-by line, not a Change-Id line while the Change-Id
\* check is active, and not a malformed Fixes: line. A well-formed Fixes: line
\* is passed, and so is a Change-Id line under --skip-gerrit-change-id. With
\* spell checking disabled no line is passed.
C7_UnclaimedLinesSpelled ==
    mpc = "parse" =>
        \A n \in 1..Len(text) :
            /\ SpellCallOk(n)
            /\ text[n] # FormFeed =>
                  (PassedToSpelling(n) <=>
                      /\ spellcheck
                      /\ ~is_signature(text[n])
                      /\ ~(ChangeIdLine(text[n]) /\ ~skip_gerrit_change_id_check)
                      /\ ~(FixesLine(text[n]) /\ ~FixesForm(text[n], HexLower)))

\* C7 witness: with spell checking enabled a well-formed Fixes: line was
\* passed to check_spelling and a malformed one was not
C7_Witness ==
    /\ mpc = "parse"
    /\ spellcheck
    /\ text = << <<"F","i","x","e","s",":"," ","a","b","c","1","2","3","d","e","f","4","5","6"," ","(","\"","s","\"",")">>,
                 <<"F","i","x","e","s",":"," ","a","b","c","1","2","3"," ","(","\"","x","\"",")">> >>
    /\ PassedToSpelling(1)
    /\ ~PassedToSpelling(2)

-----------------------------------------------------------------------------
(* scapy_server.py: main loop and handler threads                          *)

MaxConns == 3   \* connections accepted in a run

HexChars == <<"0","1","2","3","4","5","6","7","8","9","a","b","c","d","e","f">>

\* binascii.hexlify on a sequence of byte values
RECURSIVE hexlify(_)
hexlify(bytes) ==
    IF bytes = <<>>
    THEN <<>>
    ELSE <<HexChars[(bytes[1] \div 16) + 1], HexChars[(bytes[1] % 16) + 1]>>
         \o hexlify(Tail(bytes))

\* bytes.strip(): leading and trailing white space removed
IsByteSpace(c) == c \in {" ", "\t", "\n", "\r", "\f"}
strip(data) ==
    IF \A i \in 1..Len(data) : IsByteSpace(data[i])
    THEN <<>>
    ELSE LET first == CHOOSE i \in 1..Len(data) :
                          ~IsByteSpace(data[i]) /\ \A j \in 1..(i - 1) : IsByteSpace(data[j])
             last == CHOOSE i \in 1..Len(data) :
                          ~IsByteSpace(data[i]) /\ \A j \in (i + 1)..Len(data) : IsByteSpace(data[j])
         IN  SubSeq(data, first, last)

\* What a client sends, and what raw(eval(...)) of it gives: Some(bytes), or
\* None when the evaluation raises.
Payloads ==
    { [sent |-> <<>>, raw |-> None],
      [sent |-> <<" ","\n">>, raw |-> None],
      [sent |-> <<"I","P","(",")","\n">>, raw |-> Some(<<69, 0, 255>>)],
      [sent |-> <<"I","P","(","\n">>, raw |-> None] }

\* A Python value with its type
Bytes(v) == [type |-> "bytes", val |-> v]
Str(v) == [type |-> "str", val |-> v]

\* process(data): hex of the packet, or "" when anything raises
process(raw) ==
    IF IsNone(raw) THEN Str(<<>>) ELSE Bytes(hexlify(Val(raw)))

SockInit ==
    /\ conn = <<>>
    /\ naccepted = 0

\* main: accept() returns a client socket, a handler thread is started
Accept(payload) ==
    /\ naccepted < MaxConns
    /\ naccepted' = naccepted + 1
    /\ conn' = Append(conn, [pc |-> "recv", sock |-> "open", payload |-> payload,
                             data |-> <<>>, reply |-> <<>>])
    /\ UNCHANGED notSock

\* handle_client: data = client_socket.recv(...); data = data.strip()
HandleRecv(h) ==
    /\ conn[h].pc = "recv"
    /\ conn' = [conn EXCEPT ![h].data = strip(conn[h].payload.sent),
                            ![h].pc = "send"]
    /\ UNCHANGED <<naccepted>>
    /\ UNCHANGED notSock

\* handle_client: if data: client_socket.send(process(data))
\* socket.send accepts a bytes-like object and raises TypeError for a str;
\* the exception is not caught and ends the thread.
HandleSend(h) ==
    /\ conn[h].pc = "send"
    /\ IF conn[h].data = <<>>
       THEN conn' = [conn EXCEPT ![h].pc = "close"]
       ELSE LET result == process(conn[h].payload.raw)
            IN  IF result.type = "bytes"
                THEN conn' = [conn EXCEPT ![h].reply = result.val, ![h].pc = "close"]
                ELSE conn' = [conn EXCEPT ![h].pc = "raised"]
    /\ UNCHANGED <<naccepted>>
    /\ UNCHANGED notSock

\* handle_client: client_socket.close()
HandleClose(h) ==
    /\ conn[h].pc = "close"
    /\ conn' = [conn EXCEPT ![h].sock = "closed", ![h].pc = "done"]
    /\ UNCHANGED <<naccepted>>
    /\ UNCHANGED notSock

\* After a handler died of an exception its socket object is unreachable; the
\* interpreter may or may not finalize it (a reference-counting interpreter
\* does, another collector need not).
Finalize(h) ==
    /\ conn[h].pc = "raised"
    /\ conn[h].sock = "open"
    /\ conn' = [conn EXCEPT ![h].sock = "finalized"]
    /\ UNCHANGED <<naccepted>>
    /\ UNCHANGED notSock

SockNext ==
    \/ \E payload \in Payloads : Accept(payload)
    \/ \E h \in 1..Len(conn) : HandleRecv(h)
    \/ \E h \in 1..Len(conn) : HandleSend(h)
    \/ \E h \in 1..Len(conn) : HandleClose(h)
    \/ \E h \in 1..Len(conn) : Finalize(h)

InitSock == SockInit /\ RegIdle /\ OptIdle /\ MsgIdle /\ SpIdle /\ PidIdle

SpecSock == InitSock /\ [][SockNext]_vars

\* C9: no handler thread terminates leaving its client socket open: in each
\* of the three cases (no data, evaluation succeeds, evaluation raises) the
\* handler closes the connection it was given.
C9_HandlerClosesSocket ==
    \A h \in 1..Len(conn) :
        conn[h].pc \in {"done", "raised"} => conn[h].sock = "closed"

-----------------------------------------------------------------------------
(* scapy_server.py: pidfile                                                *)

NInst == 2      \* server instances started with the same pidfile

Instances == 1..NInst

\* os.getpid() of the forked child of instance i
Pid(i) == 40 + i

DigitSeq == <<"0","1","2","3","4","5","6","7","8","9">>

\* str(n) for n >= 0
RECURSIVE IntToStr(_)
IntToStr(n) ==
    IF n < 10 THEN <<DigitSeq[n + 1]>>
    ELSE IntToStr(n \div 10) \o <<DigitSeq[(n % 10) + 1]>>

DigitVal(c) == (CHOOSE i \in 1..10 : DigitSeq[i] = c) - 1

\* int(s) of a string of digits: Some(n), or None for ValueError
RECURSIVE DigitsVal(_)
DigitsVal(s) ==
    IF s = <<>> THEN 0
    ELSE 10 * DigitsVal(SubSeq(s, 1, Len(s) - 1)) + DigitVal(s[Len(s)])
ParseInt(s) ==
    IF s # <<>> /\ \A i \in 1..Len(s) : IsDigit(s[i])
    THEN Some(DigitsVal(s))
    ELSE None

\* os.path.exists("/proc/<pid>"): a process with that pid is alive
ProcExists(pid) ==
    \E j \in Instances : Pid(j) = pid /\ inst[j].pc \notin {"start", "exited"}

PidInit ==
    /\ pidfile = None
    /\ inst = [i \in Instances |-> [pc |-> "start", read |-> <<>>, fd |-> "none"]]

\* fork(): the parent exits, the child goes on (or fork fails: exit(1))
Fork(i, ok) ==
    /\ inst[i].pc = "start"
    /\ inst' = [inst EXCEPT ![i].pc = IF ok THEN "check" ELSE "exited"]
    /\ UNCHANGED pidfile
    /\ UNCHANGED notPid

\* check_pidfile: if os.path.exists(pidfile)
CheckExists(i) ==
    /\ inst[i].pc = "check"
    /\ inst' = [inst EXCEPT ![i].pc = IF IsNone(pidfile) THEN "open_w" ELSE "open_r"]
    /\ UNCHANGED pidfile
    /\ UNCHANGED notPid

\* check_pidfile: open(pidfile, 'r'); f.read().strip()
\* (the file may have been removed since the test: FileNotFoundError)
ReadPidfile(i) ==
    /\ inst[i].pc = "open_r"
    /\ inst' = IF IsNone(pidfile)
               THEN [inst EXCEPT ![i].pc = "exited"]
               ELSE [inst EXCEPT ![i].read = strip(Val(pidfile)), ![i].pc = "parse"]
    /\ UNCHANGED pidfile
    /\ UNCHANGED notPid

\* check_pidfile: int(pid); exit(1) on ValueError or when /proc/<pid> exists
ParsePid(i) ==
    /\ inst[i].pc = "parse"
    /\ LET pid == ParseInt(inst[i].read)
       IN  inst' = IF IsNone(pid) \/ ProcExists(Val(pid))
                   THEN [inst EXCEPT ![i].pc = "exited"]
                   ELSE [inst EXCEPT ![i].pc = "open_w"]
    /\ UNCHANGED pidfile
    /\ UNCHANGED notPid

\* write_pidfile: open(pidfile, 'w') creates or truncates the file
OpenPidfile(i) ==
    /\ inst[i].pc = "open_w"
    /\ pidfile' = Some(<<>>)
    /\ inst' = [inst EXCEPT ![i].pc = "write", ![i].fd = "linked"]
    /\ UNCHANGED notPid

\* write_pidfile: f.write(pid), flushed when the with block closes the file
\* (to the file of that name unless it was removed since it was opened)
WritePidfile(i) ==
    /\ inst[i].pc = "write"
    /\ pidfile' = IF inst[i].fd = "linked" THEN Some(IntToStr(Pid(i))) ELSE pidfile
    /\ inst' = [inst EXCEPT ![i].pc = "register", ![i].fd = "none"]
    /\ UNCHANGED notPid

\* daemonize: atexit.register(remove_pidfile, pidfile); main goes on to bind
Register(i) ==
    /\ inst[i].pc = "register"
    /\ inst' = [inst EXCEPT ![i].pc = "running"]
    /\ UNCHANGED pidfile
    /\ UNCHANGED notPid

\* the interpreter exits: atexit runs remove_pidfile, os.remove(pidfile)
\* (open files of other processes lose their name)
ExitInstance(i) ==
    /\ inst[i].pc = "running"
    /\ pidfile' = None
    /\ inst' = [j \in Instances |->
                   IF j = i THEN [inst[j] EXCEPT !.pc = "exited"]
                   ELSE IF inst[j].fd = "linked" /\ ~IsNone(pidfile)
                        THEN [inst[j] EXCEPT !.fd = "unlinked"]
                        ELSE inst[j]]
    /\ UNCHANGED notPid

\* the process is killed by a signal: no atexit handler runs
KillInstance(i) ==
    /\ inst[i].pc \in {"check", "open_r", "parse", "open_w", "write", "register", "running"}
    /\ inst' = [inst EXCEPT ![i].pc = "exited", ![i].fd = "none"]
    /\ UNCHANGED pidfile
    /\ UNCHANGED notPid

PidNext ==
    \/ \E i \in Instances, ok \in BOOLEAN : Fork(i, ok)
    \/ \E i \in Instances : CheckExists(i)
    \/ \E i \in Instances : ReadPidfile(i)
    \/ \E i \in Instances : ParsePid(i)
    \/ \E i \in Instances : OpenPidfile(i)
    \/ \E i \in Instances : WritePidfile(i)
    \/ \E i \in Instances : Register(i)
    \/ \E i \in Instances : ExitInstance(i)
    \/ \E i \in Instances : KillInstance(i)

InitPid == PidInit /\ RegIdle /\ OptIdle /\ MsgIdle /\ SpIdle /\ SockIdle

SpecPid == InitPid /\ [][PidNext]_vars

\* C10: of the instances started with one pidfile at most one is past
\* daemonize() at a time, and while an instance runs the pidfile exists and
\* holds that instance's pid.
C10_PidfileMutualExclusion ==
    /\ Cardinality({i \in Instances : inst[i].pc = "running"}) <= 1
    /\ \A i \in Instances :
          inst[i].pc = "running" => pidfile = Some(IntToStr(Pid(i)))

=============================================================================
